---- MODULE Spec2Model ----
(***************************************************************************)
(* HandyRL learner (src/train.py): the Coordinator's request loop          *)
(* (Learner.server), the Trainer thread (Trainer.run / Trainer.train), the *)
(* Batcher workers, the Episode Store (Trainer.episodes) and the           *)
(* update-flag / result-slot handshake between Coordinator and Trainer.    *)
(*                                                                         *)
(* Threads are interleaved at the granularity of their accesses to shared  *)
(* state: one action per access (or per run of thread-local statements).   *)
(***************************************************************************)
EXTENDS Integers, Sequences, FiniteSets, TLC

(***************************************************************************)
(* Configuration (the args dictionary read by the code).                   *)
(***************************************************************************)
minimum_episodes == 2
maximum_episodes == 3
update_episodes == 2
batch_size == 1
num_batchers == 1
forward_steps == 3
eworker_rate10 == 5   \* args['eworker_rate'] in tenths

(***************************************************************************)
(* Bounds of the model.                                                    *)
(***************************************************************************)
MaxEpisodes == 6     \* generation configurations issued in one run
MaxFed == 4          \* non-null episodes submitted in one run
MaxResults == 2      \* evaluation configurations issued, and results recorded
MaxList == 2         \* longest list payload
MaxSteps == 2        \* gradient steps the Trainer takes in one run
MaxEra == 3          \* eras the Coordinator publishes in one run
MaxLen == 4          \* turns of an episode handed to make_batch
MaxProcess == 3      \* process slots one registration asks for
MaxWorkers == 8      \* worker ids issued in one run

(***************************************************************************)
(* Values.                                                                 *)
(***************************************************************************)
None == <<>>                 \* Python's None, as an absent optional
Some(x) == <<x>>

\* A model object: the initial RandomModel, a deep copy of the train model
\* after ver gradient steps, a model_class instance built by a model-fetch
\* whose load failed, or no model (None).
NoModel == [kind |-> "none", ver |-> 0]
RandomModel == [kind |-> "random", ver |-> 0]
FreshModel == [kind |-> "fresh", ver |-> 0]
Snapshot(n) == [kind |-> "net", ver |-> n]

\* what torch.save(model.state_dict()) writes for a model
StateDict(m) == IF m.kind = "net" THEN [kind |-> "params", ver |-> m.ver]
                ELSE [kind |-> "empty", ver |-> 0]
NoFile == [kind |-> "absent", ver |-> 0]

Min(a, b) == IF a < b THEN a ELSE b

Workers == 1..num_batchers
Eras == 0..MaxEra

SeqsUpTo(S, n) == UNION {[1..k -> S] : k \in 0..n}

VARIABLES
    \* Learner
    shutdown_flag, model_era, model, files, num_episodes, num_results,
    results, prev_update_episodes, c_pc, c_flag, conn, parametric, win_rate,
    \* Trainer
    episodes, steps, lock, updated_model, update_flag, t_shutdown_flag,
    t_pc, data_cnt, t_model,
    \* Batcher
    b_shutdown_flag, b_runs, w_pc, w_n, queue,
    \* Batcher.select_episode
    sel_pc, sel_idx, sel_rate, sel_ep,
    \* make_batch and vtrace
    ep, observation, return_mode, batch, pred, loss, f_pc,
    \* caller of Learner.shutdown
    s_pc,
    \* Learner.entry_server
    total_gids, total_eids, worker_cnt, e_pc, e_conn,
    \* history
    fed, acc, raised

learner_vars == <<shutdown_flag, model_era, model, files, num_episodes,
                  num_results, results, prev_update_episodes, c_pc, c_flag,
                  conn, parametric, win_rate>>
trainer_vars == <<episodes, steps, lock, updated_model, update_flag,
                  t_shutdown_flag, t_pc, data_cnt, t_model>>
batcher_vars == <<b_shutdown_flag, b_runs, w_pc, w_n, queue>>
selector_vars == <<sel_pc, sel_idx, sel_rate, sel_ep>>
compute_vars == <<ep, observation, return_mode, batch, pred, loss, f_pc>>
entry_vars == <<total_gids, total_eids, worker_cnt, e_pc, e_conn>>
history_vars == <<fed, acc, raised>>
vars == <<learner_vars, trainer_vars, batcher_vars, selector_vars,
         compute_vars, entry_vars, s_pc, history_vars>>

(***************************************************************************)
(* Learner.__init__ and Trainer.__init__: the state after construction.    *)
(* parametric says whether the train model has trainable parameters        *)
(* (Trainer.optimizer is not None); it is fixed for the run.               *)
(***************************************************************************)
\* no win rate reported ('win rate = Nan (0)')
NoRate == [n |-> 0, win2 |-> 0]

\* no registration answered yet
NoEntry == [host |-> 0, num_process |-> 0, gids |-> <<>>, eids |-> <<>>,
            sent |-> FALSE]

NoConn == [req |-> "", payload |-> [list |-> FALSE, val |-> None],
           send_data |-> [list |-> FALSE, val |-> None], sent |-> FALSE]

Construct ==
    /\ shutdown_flag = FALSE
    /\ model_era = 0
    /\ model = RandomModel
    /\ win_rate = NoRate
    /\ files = [e \in Eras |-> NoFile]
    /\ num_episodes = 0
    /\ num_results = 0
    /\ results = <<>>
    /\ prev_update_episodes = minimum_episodes
    /\ c_pc = "serve"
    /\ c_flag = FALSE
    /\ conn = NoConn
    /\ parametric \in BOOLEAN
    /\ episodes = <<>>
    /\ steps = 0
    /\ lock = "free"
    /\ updated_model = [model |-> NoModel, steps |-> 0]
    /\ update_flag = FALSE
    /\ t_shutdown_flag = FALSE
    /\ t_pc = "run"
    /\ data_cnt = 0
    /\ t_model = NoModel
    /\ b_shutdown_flag = FALSE
    /\ b_runs = 0
    /\ w_pc = [w \in Workers |-> "idle"]
    /\ w_n = [w \in Workers |-> 0]
    /\ queue = 0
    /\ sel_pc = "draw"
    /\ sel_idx = 0
    /\ sel_rate = 0
    /\ sel_ep = 0
    /\ total_gids = <<>>
    /\ total_eids = <<>>
    /\ worker_cnt = 0
    /\ e_pc = "loop"
    /\ e_conn = NoEntry
    /\ s_pc = "none"
    /\ fed = 0
    /\ acc = {}
    /\ raised = 0

\* no batch is being computed
Init ==
    /\ Construct
    /\ ep = <<>>
    /\ observation = FALSE
    /\ return_mode = ""
    /\ batch = <<>>
    /\ pred = <<>>
    /\ loss = <<>>
    /\ f_pc = "idle"

next_update_now == prev_update_episodes

(***************************************************************************)
(* Learner.server: the request loop.                                       *)
(***************************************************************************)
next_update_episodes == prev_update_episodes + update_episodes

\* data = [data] unless the payload is a list
Wrap(payload) == IF payload.list THEN payload.val ELSE <<payload.val>>

\* a lone response is unwrapped when the payload was not a list
ReplyUnwrapAny(multi_req, send_data) ==
    IF Len(send_data) = 1
    THEN [list |-> FALSE, val |-> send_data[1]]
    ELSE [list |-> TRUE, val |-> send_data]

Reply(multi_req, send_data) ==
    IF ~multi_req /\ Len(send_data) = 1
    THEN [list |-> FALSE, val |-> send_data[1]]
    ELSE [list |-> TRUE, val |-> send_data]

\* self.workers.send(conn, send_data)
Send(req, payload, send_data) ==
    conn' = [req |-> req, payload |-> payload,
             send_data |-> Reply(payload.list, send_data), sent |-> TRUE]

\* the payloads a worker may send: one item, or a list of up to MaxList items
Payloads(Items) ==
    {[list |-> FALSE, val |-> x] : x \in Items}
    \cup {[list |-> TRUE, val |-> xs] : xs \in SeqsUpTo(Items, MaxList)}

\* the guard of the inner loop; when it fails the server goes on to update().
\* The response of the previous iteration has left with its connection.
ServerLoop ==
    /\ c_pc = "serve"
    /\ IF ~shutdown_flag /\ num_episodes < next_update_episodes
       THEN /\ c_pc' = "recv"
            /\ UNCHANGED prev_update_episodes
       ELSE /\ prev_update_episodes' = next_update_episodes
            /\ c_pc' = "update"
    /\ conn' = NoConn
    /\ acc' = {}
    /\ UNCHANGED <<entry_vars, compute_vars, selector_vars, win_rate, shutdown_flag, model_era, model, files, num_episodes,
                   num_results, results, c_flag, parametric, trainer_vars,
                   batcher_vars, s_pc, fed, raised>>

GenArgsSameId(n) ==
    [k \in 1..n |-> [episode_id |-> num_episodes,
                     player |-> num_episodes % 2,
                     model_id |-> [p \in 0..1 |-> <<model_era>>]]]

\* the generation configurations issued for n items
GenArgs(n) ==
    [k \in 1..n |-> [episode_id |-> num_episodes + k - 1,
                     player |-> (num_episodes + k - 1) % 2,
                     model_id |-> [p \in 0..1 |-> <<model_era>>]]]

ServeGargs(Ps, cap) ==
    /\ c_pc = "recv"
    /\ \E payload \in Ps :
         LET data == Wrap(payload) IN
         /\ num_episodes + Len(data) <= cap
         /\ num_episodes' = num_episodes + Len(data)
         /\ Send("gargs", payload, GenArgs(Len(data)))
    /\ c_pc' = "serve"
    /\ acc' = {}
    /\ UNCHANGED <<entry_vars, compute_vars, selector_vars, win_rate, shutdown_flag, model_era, model, files, num_results,
                   results, prev_update_episodes, c_flag, parametric,
                   trainer_vars, batcher_vars, s_pc, fed, raised>>

\* the evaluation configurations issued for n items
EvalArgs(n) ==
    [k \in 1..n |-> [model_id |-> model_era,
                     player |-> (num_results + k - 1) % 2]]

ServeEargs(Ps) ==
    /\ c_pc = "recv"
    /\ \E payload \in Ps :
         LET data == Wrap(payload) IN
         /\ num_results + Len(data) <= MaxResults
         /\ num_results' = num_results + Len(data)
         /\ Send("eargs", payload, EvalArgs(Len(data)))
    /\ c_pc' = "serve"
    /\ acc' = {}
    /\ UNCHANGED <<entry_vars, compute_vars, selector_vars, win_rate, shutdown_flag, model_era, model, files, num_episodes,
                   results, prev_update_episodes, c_flag, parametric,
                   trainer_vars, batcher_vars, s_pc, fed, raised>>

\* Learner.feed_episodes, first statement: the non-null episodes, in order
NonNull(data) == SelectSeq(data, LAMBDA e : e # None)

\* The episodes a worker submits are new objects: the k-th non-null episode
\* submitted in the run is named k.
Label(xs, base) ==
    [k \in 1..Len(xs) |->
        IF xs[k] = None THEN None
        ELSE Some(base + Cardinality({j \in 1..k : xs[j] # None}))]

LabelPayload(payload, base) ==
    IF payload.list
    THEN [list |-> TRUE, val |-> Label(payload.val, base)]
    ELSE [list |-> FALSE, val |-> Label(<<payload.val>>, base)[1]]

ExtendFirst(store, data) ==
    store \o [k \in 1..Min(1, Len(NonNull(data))) |-> NonNull(data)[k][1]]

\* self.trainer.episodes.extend([e for e in episodes if e is not None])
Extend(store, data) ==
    store \o [k \in 1..Len(NonNull(data)) |-> NonNull(data)[k][1]]

\* 'episode': feed_episodes extends the store (deque.extend is one step
\* for the other threads) and then evicts in the loop of ServeEvict.
ServeEpisode(Ps, cap) ==
    /\ c_pc = "recv"
    /\ \E p \in Ps :
         LET payload == LabelPayload(p, fed)
             data == Wrap(payload) IN
         /\ fed + Len(NonNull(data)) <= cap
         /\ episodes' = Extend(episodes, data)
         /\ fed' = fed + Len(NonNull(data))
         /\ conn' = [req |-> "episode", payload |-> payload,
                     send_data |-> [list |-> TRUE, val |-> <<>>],
                     sent |-> FALSE]
    /\ c_pc' = "evict"
    /\ acc' = {}
    /\ UNCHANGED <<entry_vars, compute_vars, selector_vars, win_rate, shutdown_flag, model_era, model, files, num_episodes,
                   num_results, results, prev_update_episodes, c_flag,
                   parametric, steps, lock, updated_model, update_flag,
                   t_shutdown_flag, t_pc, data_cnt, t_model, batcher_vars,
                   s_pc, raised>>

\* self.trainer.episodes.popleft()
PopRight(store) == SubSeq(store, 1, Len(store) - 1)

PopLeft(store) == Tail(store)

\* the eviction loop of feed_episodes, one popleft per step, and then the
\* response [True] * len(data)
ServeEvict ==
    /\ c_pc = "evict"
    /\ IF Len(episodes) > maximum_episodes
       THEN /\ episodes' = PopLeft(episodes)
            /\ UNCHANGED <<conn, c_pc>>
       ELSE /\ Send("episode", conn.payload,
                    [k \in 1..Len(Wrap(conn.payload)) |-> TRUE])
            /\ c_pc' = "serve"
            /\ UNCHANGED episodes
    /\ acc' = {}
    /\ UNCHANGED <<entry_vars, compute_vars, selector_vars, win_rate, shutdown_flag, model_era, model, files, num_episodes,
                   num_results, results, prev_update_episodes, c_flag,
                   parametric, steps, lock, updated_model, update_flag,
                   t_shutdown_flag, t_pc, data_cnt, t_model, batcher_vars,
                   s_pc, fed, raised>>

FeedResultKeyFirst(res, model_id, reward) ==
    LET dist == IF model_id \in DOMAIN res THEN res[model_id] ELSE <<>>
    IN IF reward = None THEN (model_id :> dist) @@ res
       ELSE LET cnt == IF reward[1] \in DOMAIN dist THEN dist[reward[1]]
                       ELSE 0
            IN (model_id :> ((reward[1] :> cnt + 1) @@ dist)) @@ res

FeedResultReset(res, model_id, reward) ==
    IF reward = None THEN res
    ELSE LET dist == IF model_id \in DOMAIN res THEN res[model_id] ELSE <<>>
         IN (model_id :> ((reward[1] :> 1) @@ dist)) @@ res

\* Learner.feed_results: one (model_id, reward) pair
FeedResult(res, model_id, reward) ==
    IF reward = None THEN res
    ELSE LET dist == IF model_id \in DOMAIN res THEN res[model_id] ELSE <<>>
             cnt == IF reward[1] \in DOMAIN dist THEN dist[reward[1]] ELSE 0
         IN (model_id :> ((reward[1] :> cnt + 1) @@ dist)) @@ res

RECURSIVE FeedResults(_, _)
FeedResults(res, data) ==
    IF data = <<>> THEN res
    ELSE FeedResults(FeedResult(res, Head(data)[1], Head(data)[2]), Tail(data))

\* the submitted pairs: an evaluation of the era that 'eargs' hands out, with
\* or without an outcome
ResultItems ==
    {<<model_era, r>> : r \in {None, Some(1), Some(-1)}}

\* the number of results in the histogram
RECURSIVE SumOver(_, _)
SumOver(f, S) ==
    IF S = {} THEN 0
    ELSE LET x == CHOOSE y \in S : TRUE IN f[x] + SumOver(f, S \ {x})

Recorded(res) ==
    SumOver([e \in DOMAIN res |-> SumOver(res[e], DOMAIN res[e])], DOMAIN res)

ServeResult(Ps) ==
    /\ c_pc = "recv"
    /\ \E payload \in Ps :
         LET data == Wrap(payload) IN
         /\ Recorded(FeedResults(results, data)) <= MaxResults
         /\ results' = FeedResults(results, data)
         /\ Send("result", payload, [k \in 1..Len(data) |-> TRUE])
    /\ c_pc' = "serve"
    /\ acc' = {}
    /\ UNCHANGED <<entry_vars, compute_vars, selector_vars, win_rate, shutdown_flag, model_era, model, files, num_episodes,
                   num_results, prev_update_episodes, c_flag, parametric,
                   trainer_vars, batcher_vars, s_pc, fed, raised>>

\* model = self.model_class(self.env, self.args): a new instance; without
\* trainable parameters it is the same model as any other such instance
NewModel == IF parametric THEN FreshModel ELSE RandomModel

\* model.load_state_dict(torch.load(self.model_path(model_id))) raises when
\* there is no file and when the saved keys are not the model's
Loads(model_id) ==
    /\ model_id \in DOMAIN files
    /\ files[model_id].kind = (IF parametric THEN "params" ELSE "empty")

Loaded(model_id) ==
    IF parametric THEN Snapshot(files[model_id].ver) ELSE RandomModel

\* 'model', one requested id: the try block assigns the new instance before
\* the load can raise, and the except clause leaves it in place
FetchModel(model_id) ==
    IF model_id = model_era THEN model
    ELSE IF Loads(model_id) THEN Loaded(model_id) ELSE NewModel

\* the requested ids: era 0, the current era and its two neighbours
ModelIds ==
    {i \in 0..(MaxEra + 1) : i = 0 \/ (i >= model_era - 1 /\ i <= model_era + 1)}

ServeModel(Ps) ==
    /\ c_pc = "recv"
    /\ \E payload \in Ps :
         LET data == Wrap(payload) IN
         Send("model", payload, [k \in 1..Len(data) |-> FetchModel(data[k])])
    /\ c_pc' = "serve"
    /\ acc' = {}
    /\ UNCHANGED <<entry_vars, compute_vars, selector_vars, win_rate, shutdown_flag, model_era, model, files, num_episodes,
                   num_results, results, prev_update_episodes, c_flag,
                   parametric, trainer_vars, batcher_vars, s_pc, fed, raised>>

(***************************************************************************)
(* Learner.update, Trainer.update, Trainer.recheck_update and              *)
(* Learner.update_model (the Coordinator's side of the handshake).         *)
(* acc is the set of accesses to update_flag and updated_model made by the *)
(* last step, each with whether the accessing thread held Trainer.lock.    *)
(***************************************************************************)
WinRateUnshifted(res, era) ==
    IF era \notin DOMAIN res THEN NoRate
    ELSE [n |-> SumOver(res[era], DOMAIN res[era]),
          win2 |-> SumOver([r \in DOMAIN res[era] |-> 2 * r * res[era][r]],
                           DOMAIN res[era])]

\* Learner.update, the win rate it prints: n += cnt, win += (r + 1) / 2 * cnt
\* over self.results[self.model_era]; the rate is win / n = win2 / (2 * n)
WinRate(res, era) ==
    IF era \notin DOMAIN res THEN NoRate
    ELSE [n |-> SumOver(res[era], DOMAIN res[era]),
          win2 |-> SumOver([r \in DOMAIN res[era] |-> (r + 1) * res[era][r]],
                           DOMAIN res[era])]

Access(who, field, op, held) ==
    [who |-> who, field |-> field, op |-> op, held |-> held]

\* Learner.update_model: advance the era, install the model, save its
\* state_dict under the new era
UpdateModelSameEra(m) ==
    /\ model_era' = model_era
    /\ model' = m
    /\ files' = [files EXCEPT ![model_era] = StateDict(m)]

UpdateModel(m) ==
    /\ model_era' = model_era + 1
    /\ model' = m
    /\ files' = [files EXCEPT ![model_era + 1] = StateDict(m)]

\* Trainer.update: if len(self.episodes) < self.args['minimum_episodes']
UpdateBelowMinimumOff ==
    Len(episodes) < minimum_episodes - 1

UpdateBelowMinimum ==
    Len(episodes) < minimum_episodes

UpdateNoModelSkip ==
    /\ c_pc = "update"
    /\ win_rate' = WinRate(results, model_era)
    /\ UpdateBelowMinimum
    /\ model_era < MaxEra
    /\ c_pc' = "serve"
    /\ acc' = {}
    /\ UNCHANGED <<entry_vars, compute_vars, selector_vars, shutdown_flag, model_era, model, files, num_episodes, num_results, results,
                   prev_update_episodes, c_flag, conn, parametric,
                   trainer_vars, batcher_vars, s_pc, fed, raised>>

\* Trainer.update below the threshold returns (None, 0) at once, and
\* Learner.update then republishes the current model
UpdateNoModel ==
    /\ c_pc = "update"
    /\ win_rate' = WinRate(results, model_era)
    /\ UpdateBelowMinimum
    /\ model_era < MaxEra
    /\ UpdateModel(model)
    /\ c_pc' = "serve"
    /\ acc' = {}
    /\ UNCHANGED <<entry_vars, compute_vars, selector_vars, shutdown_flag, num_episodes, num_results, results,
                   prev_update_episodes, c_flag, conn, parametric,
                   trainer_vars, batcher_vars, s_pc, fed, raised>>

\* Trainer.update at or above the threshold: self.update_flag = True
UpdateRaise ==
    /\ c_pc = "update"
    /\ win_rate' = WinRate(results, model_era)
    /\ ~UpdateBelowMinimum
    /\ update_flag' = TRUE
    /\ acc' = {Access("coordinator", "update_flag", "write", lock = "coordinator")}
    /\ raised' = 0
    /\ c_pc' = "poll"
    /\ UNCHANGED <<entry_vars, compute_vars, selector_vars, shutdown_flag, model_era, model, files, num_episodes,
                   num_results, results, prev_update_episodes, c_flag, conn,
                   parametric, episodes, steps, lock, updated_model,
                   t_shutdown_flag, t_pc, data_cnt, t_model, batcher_vars,
                   s_pc, fed>>

\* time.sleep(0.1) and the locked part of recheck_update: acquire, read the
\* flag, release
PollFlag ==
    /\ c_pc = "poll"
    /\ lock = "free"
    /\ c_flag' = update_flag
    /\ acc' = {Access("coordinator", "update_flag", "read", TRUE)}
    /\ c_pc' = "poll_ret"
    /\ UNCHANGED <<entry_vars, compute_vars, selector_vars, win_rate, shutdown_flag, model_era, model, files, num_episodes,
                   num_results, results, prev_update_episodes, conn,
                   parametric, trainer_vars, batcher_vars, s_pc, fed,
                   raised>>

\* the return of recheck_update, after the release: (None, -1) while the flag
\* was set, else self.updated_model; Trainer.update polls again on no model
PollAgain ==
    /\ c_pc = "poll_ret"
    /\ c_flag \/ updated_model.model = NoModel
    /\ acc' = IF c_flag THEN {}
              ELSE {Access("coordinator", "updated_model", "read",
                           lock = "coordinator")}
    /\ c_pc' = "poll"
    /\ c_flag' = FALSE
    /\ UNCHANGED <<entry_vars, compute_vars, selector_vars, win_rate, shutdown_flag, model_era, model, files, num_episodes,
                   num_results, results, prev_update_episodes, conn,
                   parametric, trainer_vars, batcher_vars, s_pc, fed,
                   raised>>

\* Trainer.update returns the slot's (model, steps); Learner.update
\* publishes it
PollReturn ==
    /\ c_pc = "poll_ret"
    /\ ~c_flag
    /\ updated_model.model # NoModel
    /\ model_era < MaxEra
    /\ UpdateModel(updated_model.model)
    /\ acc' = {Access("coordinator", "updated_model", "read",
                      lock = "coordinator")}
    /\ c_pc' = "serve"
    /\ UNCHANGED <<entry_vars, compute_vars, selector_vars, win_rate, shutdown_flag, num_episodes, num_results, results,
                   prev_update_episodes, c_flag, conn, parametric,
                   trainer_vars, batcher_vars, s_pc, fed, raised>>

(***************************************************************************)
(* Trainer.run, Trainer.train and Trainer.report_update (the Trainer       *)
(* thread).                                                                *)
(***************************************************************************)
\* while not self.shutdown_flag
TrainerRun ==
    /\ t_pc = "run"
    /\ t_pc' = IF t_shutdown_flag THEN "done" ELSE "gate"
    /\ acc' = {}
    /\ UNCHANGED <<entry_vars, compute_vars, selector_vars, learner_vars, episodes, steps, lock, updated_model,
                   update_flag, t_shutdown_flag, data_cnt, t_model,
                   batcher_vars, s_pc, fed, raised>>

TrainerBelowMinimumOff ==
    Len(episodes) < minimum_episodes - 1

\* Trainer.run: if len(self.episodes) < self.args['minimum_episodes']
TrainerBelowMinimum ==
    Len(episodes) < minimum_episodes

\* below the threshold: time.sleep(1); continue
TrainerWait ==
    /\ t_pc = "gate"
    /\ TrainerBelowMinimum
    /\ t_pc' = "run"
    /\ acc' = {}
    /\ UNCHANGED <<entry_vars, compute_vars, selector_vars, learner_vars, episodes, steps, lock, updated_model,
                   update_flag, t_shutdown_flag, data_cnt, t_model,
                   batcher_vars, s_pc, fed, raised>>

\* self.workers.start() of the batcher: the workers begin their loops
StartWorkers ==
    [w \in Workers |-> IF w_pc[w] = "idle" THEN "loop" ELSE w_pc[w]]

\* at the threshold: batcher.run() while no step was taken, then train()
\* begins; without an optimizer it returns None at once
TrainerStart ==
    /\ t_pc = "gate"
    /\ ~TrainerBelowMinimum
    /\ IF steps = 0
       THEN /\ w_pc' = StartWorkers
            /\ b_runs' = Min(b_runs + 1, 2)
       ELSE UNCHANGED <<w_pc, b_runs>>
    /\ IF parametric
       THEN /\ data_cnt' = 0
            /\ t_pc' = "loop"
            /\ UNCHANGED t_model
       ELSE /\ t_model' = NoModel
            /\ t_pc' = "report"
            /\ UNCHANGED data_cnt
    /\ acc' = {}
    /\ UNCHANGED <<entry_vars, compute_vars, selector_vars, learner_vars, episodes, steps, lock, updated_model,
                   update_flag, t_shutdown_flag, b_shutdown_flag, w_n, queue,
                   s_pc, fed, raised>>

TrainConditionNoData == ~(update_flag \/ t_shutdown_flag)

TrainConditionOneBatch == data_cnt = 0

\* while data_cnt == 0 or not (self.update_flag or self.shutdown_flag)
TrainCondition == data_cnt = 0 \/ ~(update_flag \/ t_shutdown_flag)

\* the loop test of train(); after the loop the model is deep-copied
TrainerLoop ==
    /\ t_pc = "loop"
    /\ IF TrainCondition
       THEN /\ t_pc' = "batch"
            /\ UNCHANGED <<t_model, data_cnt>>
       ELSE /\ t_model' = Snapshot(steps)
            /\ data_cnt' = 0
            /\ t_pc' = "report"
    /\ acc' = IF data_cnt = 0 THEN {}
              ELSE {Access("trainer", "update_flag", "read", lock = "trainer")}
    /\ UNCHANGED <<entry_vars, compute_vars, selector_vars, learner_vars, episodes, steps, lock, updated_model,
                   update_flag, t_shutdown_flag, batcher_vars, s_pc, fed,
                   raised>>

TrainerBatchInPlace ==
    /\ t_pc = "batch"
    /\ queue > 0
    /\ steps < MaxSteps
    /\ queue' = queue - 1
    /\ steps' = steps + 1
    /\ data_cnt' = data_cnt + batch_size
    /\ model' = IF model.kind = "net" THEN Snapshot(steps + 1) ELSE model
    /\ t_pc' = "loop"
    /\ acc' = {}
    /\ UNCHANGED <<entry_vars, compute_vars, selector_vars, win_rate, shutdown_flag, model_era, files, num_episodes,
                   num_results, results, prev_update_episodes, c_pc, c_flag,
                   conn, parametric, episodes, lock, updated_model, update_flag,
                   t_shutdown_flag, t_model, b_shutdown_flag, b_runs, w_pc,
                   w_n, s_pc, fed, raised>>

\* batch = self.batcher.batch() blocks on the empty queue; then one gradient
\* step on the batch, whose data count is at least one turn per episode
TrainerBatch ==
    /\ t_pc = "batch"
    /\ queue > 0
    /\ steps < MaxSteps
    /\ queue' = queue - 1
    /\ steps' = steps + 1
    /\ data_cnt' = data_cnt + batch_size
    /\ t_pc' = "loop"
    /\ acc' = {}
    /\ UNCHANGED <<entry_vars, compute_vars, selector_vars, learner_vars, episodes, lock, updated_model, update_flag,
                   t_shutdown_flag, t_model, b_shutdown_flag, b_runs, w_pc,
                   w_n, s_pc, fed, raised>>

\* report_update: self.lock.acquire(); self.update_flag = False
ReportFlag ==
    /\ t_pc = "report"
    /\ lock = "free"
    /\ lock' = "trainer"
    /\ update_flag' = FALSE
    /\ acc' = {Access("trainer", "update_flag", "write", TRUE)}
    /\ t_pc' = "report_slot"
    /\ UNCHANGED <<entry_vars, compute_vars, selector_vars, learner_vars, episodes, steps, updated_model,
                   t_shutdown_flag, data_cnt, t_model, batcher_vars, s_pc,
                   fed, raised>>

\* report_update: self.updated_model = model, steps; self.lock.release()
ReportSlot ==
    /\ t_pc = "report_slot"
    /\ updated_model' = [model |-> t_model, steps |-> steps]
    /\ lock' = "free"
    /\ raised' = Min(raised + 1, 2)
    /\ acc' = {Access("trainer", "updated_model", "write", lock = "trainer")}
    /\ t_model' = NoModel
    /\ t_pc' = "run"
    /\ UNCHANGED <<entry_vars, compute_vars, selector_vars, learner_vars, episodes, steps, update_flag,
                   t_shutdown_flag, data_cnt, batcher_vars, s_pc, fed>>

(***************************************************************************)
(* Batcher.worker, with the worker pool's pipes and output queue           *)
(* (connection.MultiThreadWorkers).                                        *)
(***************************************************************************)
buffer_length == 3 * batch_size

\* while not self.shutdown_flag
WorkerLoop(w) ==
    /\ w_pc[w] = "loop"
    /\ w_pc' = [w_pc EXCEPT ![w] = IF b_shutdown_flag THEN "done" ELSE "recv"]
    /\ acc' = {}
    /\ UNCHANGED <<entry_vars, compute_vars, selector_vars, learner_vars, trainer_vars, b_shutdown_flag, b_runs, w_n,
                   queue, s_pc, fed, raised>>

\* ep = conn.recv(); episodes.append(ep): one episode drawn by
\* select_episode from the store
WorkerRecv(w) ==
    /\ w_pc[w] = "recv"
    /\ Len(episodes) > 0
    /\ w_n' = [w_n EXCEPT ![w] = w_n[w] + 1]
    /\ w_pc' = [w_pc EXCEPT ![w] =
                  IF w_n[w] + 1 >= batch_size THEN "send" ELSE "loop"]
    /\ acc' = {}
    /\ UNCHANGED <<entry_vars, compute_vars, selector_vars, learner_vars, trainer_vars, b_shutdown_flag, b_runs,
                   queue, s_pc, fed, raised>>

WorkerSendNoBlock(w) ==
    /\ w_pc[w] = "send"
    /\ queue' = queue + 1
    /\ w_n' = [w_n EXCEPT ![w] = 0]
    /\ w_pc' = [w_pc EXCEPT ![w] = "loop"]
    /\ acc' = {}
    /\ UNCHANGED <<entry_vars, compute_vars, selector_vars, learner_vars, trainer_vars, b_shutdown_flag, b_runs,
                   s_pc, fed, raised>>

\* batch = make_batch(episodes, self.args); conn.send((batch, len(episodes)))
\* blocks while the output queue is full; episodes = []
WorkerSend(w) ==
    /\ w_pc[w] = "send"
    /\ queue < buffer_length
    /\ queue' = queue + 1
    /\ w_n' = [w_n EXCEPT ![w] = 0]
    /\ w_pc' = [w_pc EXCEPT ![w] = "loop"]
    /\ acc' = {}
    /\ UNCHANGED <<entry_vars, compute_vars, selector_vars, learner_vars, trainer_vars, b_shutdown_flag, b_runs,
                   s_pc, fed, raised>>

(***************************************************************************)
(* Batcher.select_episode, run by the thread that feeds the workers, one   *)
(* read of the store per step.  A rate is kept as its numerator over       *)
(* maximum_episodes.                                                       *)
(***************************************************************************)
CandidatesAll(n) == 0..(n - 1)

\* random.randrange(min(len(self.episodes), self.args['maximum_episodes']))
Candidates(n) == 0..(Min(n, maximum_episodes) - 1)

\* accept_rate = 1 - (len(self.episodes) - 1 - ep_idx) / maximum_episodes
AcceptRate(n, ep_idx) == maximum_episodes - (n - 1 - ep_idx)

\* the draw of an index; the pool pulls from the selector once Trainer.run
\* has called batcher.run()
SelectDraw ==
    /\ sel_pc = "draw"
    /\ b_runs > 0
    /\ \E i \in Candidates(Len(episodes)) : sel_idx' = i
    /\ sel_pc' = "rate"
    /\ acc' = {}
    /\ UNCHANGED <<entry_vars, compute_vars, learner_vars, trainer_vars, batcher_vars, sel_rate,
                   sel_ep, s_pc, fed, raised>>

\* if random.random() < accept_rate: random() is in [0, 1), so a rate of 1
\* or more always accepts and a rate of 0 or less never does
SelectRate ==
    /\ sel_pc = "rate"
    /\ sel_rate' = AcceptRate(Len(episodes), sel_idx)
    /\ \E accept \in BOOLEAN :
          /\ accept => sel_rate' > 0
          /\ ~accept => sel_rate' < maximum_episodes
          /\ sel_pc' = IF accept THEN "take" ELSE "draw"
    /\ acc' = {}
    /\ UNCHANGED <<entry_vars, compute_vars, learner_vars, trainer_vars, batcher_vars, sel_idx,
                   sel_ep, s_pc, fed, raised>>

\* return self.episodes[ep_idx]
SelectTake ==
    /\ sel_pc = "take"
    /\ IF sel_idx + 1 <= Len(episodes)
       THEN /\ sel_ep' = episodes[sel_idx + 1]
            /\ sel_pc' = "draw"
       ELSE /\ sel_pc' = "IndexError"
            /\ UNCHANGED sel_ep
    /\ acc' = {}
    /\ UNCHANGED <<entry_vars, compute_vars, learner_vars, trainer_vars, batcher_vars, sel_idx,
                   sel_rate, s_pc, fed, raised>>

Selector == SelectDraw \/ SelectRate \/ SelectTake

(***************************************************************************)
(* Learner.shutdown, called by another thread while the server runs.       *)
(***************************************************************************)
\* self.shutdown_flag = True
ShutdownLearner ==
    /\ s_pc = "none"
    /\ shutdown_flag' = TRUE
    /\ s_pc' = "trainer"
    /\ acc' = {}
    /\ UNCHANGED <<entry_vars, compute_vars, selector_vars, win_rate, model_era, model, files, num_episodes, num_results,
                   results, prev_update_episodes, c_pc, c_flag, conn,
                   parametric, trainer_vars, batcher_vars, fed,
                   raised>>

\* self.trainer.shutdown(): Trainer.shutdown_flag = True
ShutdownTrainer ==
    /\ s_pc = "trainer"
    /\ t_shutdown_flag' = TRUE
    /\ s_pc' = "batcher"
    /\ acc' = {}
    /\ UNCHANGED <<entry_vars, compute_vars, selector_vars, learner_vars, episodes, steps, lock, updated_model,
                   update_flag, t_pc, data_cnt, t_model, batcher_vars, fed, raised>>

\* self.batcher.shutdown(): Batcher.shutdown_flag = True
ShutdownBatcher ==
    /\ s_pc = "batcher"
    /\ b_shutdown_flag' = TRUE
    /\ s_pc' = "join"
    /\ acc' = {}
    /\ UNCHANGED <<entry_vars, compute_vars, selector_vars, learner_vars, trainer_vars, b_runs, w_pc, w_n, queue,
                   fed, raised>>

\* for thread in self.threads: thread.join()
ShutdownJoin ==
    /\ s_pc = "join"
    /\ t_pc = "done"
    /\ s_pc' = "joined"
    /\ acc' = {}
    /\ UNCHANGED <<entry_vars, compute_vars, selector_vars, learner_vars, trainer_vars, batcher_vars, fed,
                   raised>>

Single(x) == [list |-> FALSE, val |-> x]
List(xs) == [list |-> TRUE, val |-> xs]

Server ==
    \/ ServerLoop
    \/ ServeGargs({Single(None), List(<<None, None>>)}, MaxEpisodes)
    \/ ServeEpisode({Single(Some(0)), List(<<Some(0), None, Some(0)>>)}, MaxFed)
    \/ ServeEvict
    \/ UpdateNoModel
    \/ UpdateRaise
    \/ PollFlag
    \/ PollAgain
    \/ PollReturn

TrainerThread ==
    \/ TrainerRun
    \/ TrainerWait
    \/ TrainerStart
    \/ TrainerLoop
    \/ TrainerBatch
    \/ ReportFlag
    \/ ReportSlot

BatcherWorker(w) ==
    \/ WorkerLoop(w)
    \/ WorkerRecv(w)
    \/ WorkerSend(w)

Shutdown ==
    \/ ShutdownLearner
    \/ ShutdownTrainer
    \/ ShutdownBatcher
    \/ ShutdownJoin

Next ==
    \/ Server
    \/ TrainerThread
    \/ \E w \in Workers : BatcherWorker(w)
    \/ Shutdown

Spec == Init /\ [][Next]_vars

(***************************************************************************)
(* The request handlers with every payload shape.  The handlers read and   *)
(* write nothing of the Trainer thread and the Batcher but the store, and  *)
(* those threads nothing of the handlers' state, so here they are          *)
(* scheduled only while the Coordinator waits for them in Trainer.update:  *)
(* the Trainer thread while the request is pending or being reported, the  *)
(* Batcher while the Trainer waits for a batch.  No shutdown is requested. *)
(***************************************************************************)
Waiting == c_pc \in {"poll", "poll_ret"}

Pending == Waiting /\ (update_flag \/ t_pc \in {"report", "report_slot"})

ServerDispatch ==
    \/ ServerLoop
    \/ ServeGargs(Payloads({None}), MaxEpisodes)
    \/ ServeEargs(Payloads({None}))
    \/ ServeEpisode(Payloads({None, Some(0)}), MaxFed)
    \/ ServeEvict
    \/ ServeResult(Payloads(ResultItems))
    \/ ServeModel(Payloads(ModelIds))
    \/ UpdateNoModel
    \/ UpdateRaise
    \/ PollFlag
    \/ PollAgain
    \/ PollReturn

TrainerDispatch ==
    /\ Pending
    /\ \/ TrainerRun
       \/ TrainerStart
       \/ TrainerLoop
       \/ TrainerBatch
       \/ ReportFlag
       \/ ReportSlot

BatcherDispatch ==
    /\ Pending
    /\ t_pc = "batch"
    /\ queue = 0
    /\ \E w \in Workers : BatcherWorker(w)

NextDispatch ==
    \/ ServerDispatch
    \/ TrainerDispatch
    \/ BatcherDispatch

SpecDispatch == Init /\ [][NextDispatch]_vars

(***************************************************************************)
(* The episode submissions of the Coordinator against the sampling thread. *)
(***************************************************************************)
Feeder ==
    \/ ServerLoop
    \/ ServeEpisode({Single(Some(0)), List(<<Some(0), None, Some(0)>>)}, MaxFed)
    \/ ServeEvict

\* Trainer.run up to the start of the Batcher
Starter ==
    \/ TrainerRun
    \/ TrainerWait
    \/ TrainerStart

NextSampling == Feeder \/ Selector \/ Starter

SpecSampling ==
    /\ Init
    /\ [][NextSampling]_vars
    /\ WF_vars(Feeder)
    /\ WF_vars(Selector)

(***************************************************************************)
(* make_batch for one episode of a two-player game.  An episode is its     *)
(* sequence of turn players and the reward of player 0 (player 1 gets the  *)
(* opposite); a per-turn datum is named by the number of its turn, 1 for   *)
(* the first, and 0 stands for a padded step.                              *)
(***************************************************************************)
Players == 0..1

\* the time steps of a batch: steps = args['forward_steps']
T == 1..forward_steps

Episodes ==
    {[turn |-> t, reward |-> r] :
        t \in UNION {[1..n -> Players] : n \in 1..MaxLen}, r \in {-1, 1}}

Zeros == [p \in Players |-> 0]
Ones == [p \in Players |-> 1]

\* ret = np.array(ep['reward']).reshape(1, -1)
Return(e) == [p \in Players |-> IF p = 0 THEN e.reward ELSE -e.reward]

\* turn_candidates = 1 + max(0, ep_train_length - args['forward_steps'])
TurnCandidatesNoClamp(e) == 1 + Len(e.turn)

TurnCandidates(e) ==
    LET d == Len(e.turn) - forward_steps IN 1 + (IF d > 0 THEN d ELSE 0)

\* np.eye(len(players))[ep['turn'][t]]
OneHot(player) == [p \in Players |-> IF p = player THEN 1 ELSE 0]

\* the arrays of one episode for the start turn st (0-based): the slices
\* [st:ed] and then the padding up to forward_steps
MakeWindow(e, obs_flag, st) ==
    LET ed == Min(st + forward_steps, Len(e.turn))
        traj_steps == ed - st
        real(t) == t <= traj_steps
        slice == [t \in 1..traj_steps |-> st + t]
        padded(xs) == xs \o [k \in 1..(forward_steps - Len(xs)) |-> 0]
    IN [st |-> st,
        ed |-> ed,
        observation |-> padded(slice),
        pmask |-> padded(slice),
        action |-> padded(slice),
        policy |-> padded(slice),
        tmask |-> [t \in T |-> IF real(t) THEN OneHot(e.turn[st + t])
                                ELSE Zeros],
        vmask |-> [t \in T |-> IF ~real(t) THEN Zeros
                                ELSE IF obs_flag THEN Ones
                                ELSE OneHot(e.turn[st + t])],
        value |-> [t \in T |-> IF real(t) THEN Zeros ELSE Return(e)],
        progress |-> [t \in T |-> IF real(t)
                                  THEN [num |-> st + t - 1, den |-> Len(e.turn)]
                                  ELSE [num |-> 1, den |-> 1]],
        return |-> Return(e)]

\* make_batch: st = random.randrange(turn_candidates)
MakeBatch ==
    /\ f_pc = "make"
    /\ \E st \in 0..(TurnCandidates(ep) - 1) :
          batch' = MakeWindow(ep, observation, st)
    /\ f_pc' = "forward"
    /\ acc' = {}
    /\ UNCHANGED <<entry_vars, learner_vars, trainer_vars, batcher_vars, selector_vars,
                   ep, observation, return_mode, pred, loss, s_pc, fed,
                   raised>>

(***************************************************************************)
(* forward_prediction, vtrace_base and vtrace on that batch.  Numbers are  *)
(* exact: values and returns are integers, and the value targets and       *)
(* advantages are kept in units of 1 / Scale, which the powers of          *)
(* lmb = 0.7 over forward_steps steps divide.                              *)
(***************************************************************************)
lmb10 == 7                       \* lmb = 0.7, in tenths
Scale == 10 ^ (forward_steps - 1)

\* what the network may answer for the two players at one step
ValuePairs == {<<0, 0>>, <<2, -2>>, <<-2, 2>>, <<2, 0>>}

\* gmasks = batch['tmask'].sum(-1, keepdim=True)
GMask(b, t) == b.tmask[t][0] + b.tmask[t][1]

\* forward_prediction: t_values = t_values.mul(batch['vmask'])
TValues(b, out) ==
    [t \in T |-> [p \in Players |-> out[t][p + 1] * b.vmask[t][p]]]

\* the selected action's log-probability under the network and the entropy
\* of the network's policy at a step, before any mask: finite and not zero
LogSelected == -1
Entropy == 1

ValuesNogradNoReturn(b, obs_flag, out) ==
    [t \in T |->
        LET t_values == [p \in Players |-> out[t][p + 1] * b.vmask[t][p]]
            opponent == [p \in Players |-> -t_values[1 - p]]
            both == [p \in Players |->
                        IF obs_flag THEN (t_values[p] + opponent[p]) \div 2
                        ELSE t_values[p] + opponent[p]]
        IN [p \in Players |-> both[p] * GMask(b, t)]]

\* vtrace_base: the values masked by vmask, combined with the opponent's
\* for the zero-sum game, and replaced by the return where no one moves
ValuesNograd(b, obs_flag, out) ==
    [t \in T |->
        LET t_values == [p \in Players |-> out[t][p + 1] * b.vmask[t][p]]
            opponent == [p \in Players |-> -t_values[1 - p]]
            both == [p \in Players |->
                        IF obs_flag THEN (t_values[p] + opponent[p]) \div 2
                        ELSE t_values[p] + opponent[p]]
        IN [p \in Players |->
               both[p] * GMask(b, t) + b.return[p] * (1 - GMask(b, t))]]

\* the log-policies are multiplied by gmasks, so rho is exp(0) = 1 where no
\* one moves; both clip thresholds are 1.0
ClippedRhos(b, rho) == [t \in T |-> IF GMask(b, t) = 1 THEN rho[t] ELSE 1]

Forward ==
    /\ f_pc = "forward"
    /\ \E out \in [T -> ValuePairs], rho \in [T -> {0, 1}] :
          pred' = [t_values |-> TValues(batch, out),
                   log_selected_t_policies |->
                       [t \in T |-> LogSelected * GMask(batch, t)],
                   values_nograd |-> ValuesNograd(batch, observation, out),
                   clipped_rhos |-> ClippedRhos(batch, rho),
                   cs |-> ClippedRhos(batch, rho)]
    /\ f_pc' = "vtrace"
    /\ acc' = {}
    /\ UNCHANGED <<entry_vars, learner_vars, trainer_vars, batcher_vars, selector_vars,
                   ep, observation, return_mode, batch, loss, s_pc, fed,
                   raised>>

\* TD0, one player's column v with final return ret:
\* deltas = clipped_rhos * (values_t_plus_1 - values_nograd)
Delta(v, ret, rho, t) ==
    rho[t] * ((IF t = forward_steps THEN ret ELSE v[t + 1]) - v[t])

VsMinusVOneStep(v, ret, rho, c, t) == Delta(v, ret, rho, t)

\* vs_minus_v_xs: deltas[-1], then deltas[i] + cs[i] * vs_minus_v_xs[0]
RECURSIVE VsMinusV(_, _, _, _, _)
VsMinusV(v, ret, rho, c, t) ==
    IF t = forward_steps THEN Delta(v, ret, rho, t)
    ELSE Delta(v, ret, rho, t) + c[t] * VsMinusV(v, ret, rho, c, t + 1)

Vs(v, ret, rho, c, t) == VsMinusV(v, ret, rho, c, t) + v[t]

RECURSIVE LambdaReturnsSameStep(_, _, _)
LambdaReturnsSameStep(v, ret, t) ==
    IF t = forward_steps THEN ret * Scale
    ELSE ((10 - lmb10) * v[t] * Scale
          + lmb10 * LambdaReturnsSameStep(v, ret, t + 1)) \div 10

\* TDLAMBDA: returns[-1], then for i = time_length - 1 down to 1
\* (1 - lmb) * values_nograd[i] + lmb * lambda_returns[0], which lands at
\* position i - 1; here positions count from 1
RECURSIVE LambdaReturns(_, _, _)
LambdaReturns(v, ret, t) ==
    IF t = forward_steps THEN ret * Scale
    ELSE ((10 - lmb10) * v[t + 1] * Scale
          + lmb10 * LambdaReturns(v, ret, t + 1)) \div 10

ReturnModes == {"MC", "TD0", "TDLAMBDA"}

\* vtrace: value_targets and advantages per step and player, in 1 / Scale
VTraceTargets(mode, b, pr) ==
    [t \in T |-> [p \in Players |->
        LET v == [k \in T |-> pr.values_nograd[k][p]]
            ret == b.return[p]
        IN CASE mode = "MC" -> ret * Scale
             [] mode = "TD0" -> Vs(v, ret, pr.clipped_rhos, pr.cs, t) * Scale
             [] OTHER -> LambdaReturns(v, ret, t)]]

VTraceAdvantages(mode, b, pr) ==
    [t \in T |-> [p \in Players |->
        LET v == [k \in T |-> pr.values_nograd[k][p]]
            ret == b.return[p]
            rho == pr.clipped_rhos
        IN CASE mode = "MC" -> rho[t] * (ret - v[t]) * Scale
             [] mode = "TD0" ->
                  rho[t] * ((IF t = forward_steps THEN ret
                             ELSE Vs(v, ret, rho, pr.cs, t + 1)) - v[t]) * Scale
             [] OTHER -> rho[t] * (LambdaReturns(v, ret, t) - v[t] * Scale)]]

\* compose_losses, the terms each step adds to the sums, with the targets
\* and advantages in 1 / Scale:
\* turn_advantages = advantages.mul(tmasks).sum(-1)
\* losses['p'] = (-log_selected_policies * turn_advantages).sum()
\* losses['v'] = ((values - value_targets) ** 2).mul(vmasks).sum() / 2,
\*               here twice the term
\* losses['ent'] = entropy.mul(tmasks.sum(-1)).sum()
ComposeLosses(b, pr, advantages, value_targets) ==
    LET turn_advantages(t) ==
            SumOver([p \in Players |-> advantages[t][p] * b.tmask[t][p]],
                    Players)
        sq(x) == x * x
    IN [p |-> [t \in T |-> (- pr.log_selected_t_policies[t])
                              * turn_advantages(t)],
        v |-> [t \in T |->
                 SumOver([p \in Players |->
                             sq(pr.t_values[t][p] * Scale
                                - value_targets[t][p]) * b.vmask[t][p]],
                         Players)],
        ent |-> [t \in T |-> Entropy * GMask(b, t)]]

\* vtrace, with dcnt = tmasks.sum() of compose_losses
VTrace ==
    /\ f_pc = "vtrace"
    /\ loss' = [value_targets |-> VTraceTargets(return_mode, batch, pred),
                advantages |-> VTraceAdvantages(return_mode, batch, pred),
                terms |-> ComposeLosses(batch, pred,
                              VTraceAdvantages(return_mode, batch, pred),
                              VTraceTargets(return_mode, batch, pred)),
                dcnt |-> LET cnt(t) == GMask(batch, t)
                         IN SumOver([t \in T |-> cnt(t)], T)]
    /\ f_pc' = "done"
    /\ acc' = {}
    /\ UNCHANGED <<entry_vars, learner_vars, trainer_vars, batcher_vars, selector_vars,
                   ep, observation, return_mode, batch, pred, s_pc, fed,
                   raised>>

\* one episode through make_batch and vtrace, for every episode of up to
\* MaxLen turns, both observation layouts and the three estimators
InitCompute ==
    /\ Construct
    /\ ep \in Episodes
    /\ observation \in BOOLEAN
    /\ return_mode \in ReturnModes
    /\ batch = <<>>
    /\ pred = <<>>
    /\ loss = <<>>
    /\ f_pc = "make"

NextCompute == MakeBatch \/ Forward \/ VTrace

SpecCompute == InitCompute /\ [][NextCompute]_vars

(***************************************************************************)
(* Learner.entry_server: the registration loop.                            *)
(***************************************************************************)
Hosts == 0..1

EntryArgs == [host : Hosts, num_process : 0..MaxProcess]

IsGeneratorNoOffset(tg, te) == Len(tg) * eworker_rate10 < 10 * Len(te)

\* if len(total_gids) * self.args['eworker_rate'] < len(total_eids) - 1
IsGenerator(tg, te) == Len(tg) * eworker_rate10 < 10 * (Len(te) - 1)

DivideSlotSameId(d) ==
    IF IsGenerator(d.total_gids, d.total_eids)
    THEN [d EXCEPT !.gids = Append(@, d.worker_cnt),
                   !.total_gids = Append(@, d.worker_cnt)]
    ELSE [d EXCEPT !.eids = Append(@, d.worker_cnt),
                   !.total_eids = Append(@, d.worker_cnt),
                   !.worker_cnt = @ + 1]

\* one pass of the loop over the process slots
DivideSlot(d) ==
    IF IsGenerator(d.total_gids, d.total_eids)
    THEN [d EXCEPT !.gids = Append(@, d.worker_cnt),
                   !.total_gids = Append(@, d.worker_cnt),
                   !.worker_cnt = @ + 1]
    ELSE [d EXCEPT !.eids = Append(@, d.worker_cnt),
                   !.total_eids = Append(@, d.worker_cnt),
                   !.worker_cnt = @ + 1]

\* for _ in range(entry_args['num_process'])
RECURSIVE Divide(_, _)
Divide(d, n) == IF n = 0 THEN d ELSE Divide(DivideSlot(d), n - 1)

\* while not self.shutdown_flag
EntryLoop ==
    /\ e_pc = "loop"
    /\ e_pc' = IF shutdown_flag THEN "done" ELSE "accept"
    /\ e_conn' = NoEntry
    /\ UNCHANGED <<total_gids, total_eids, worker_cnt, learner_vars,
                   trainer_vars, batcher_vars, selector_vars, compute_vars,
                   s_pc, history_vars>>

\* conn = next(conn_acceptor) is None after the timeout
EntryTimeout ==
    /\ e_pc = "accept"
    /\ e_pc' = "loop"
    /\ UNCHANGED <<total_gids, total_eids, worker_cnt, e_conn, learner_vars,
                   trainer_vars, batcher_vars, selector_vars, compute_vars,
                   s_pc, history_vars>>

\* one registration: receive entry_args, divide the slots, send the ids
EntryRegister(cap) ==
    /\ e_pc = "accept"
    /\ \E entry_args \in EntryArgs :
          LET d == Divide([gids |-> <<>>, eids |-> <<>>,
                           total_gids |-> total_gids,
                           total_eids |-> total_eids,
                           worker_cnt |-> worker_cnt],
                          entry_args.num_process)
          IN /\ worker_cnt + entry_args.num_process <= cap
             /\ total_gids' = d.total_gids
             /\ total_eids' = d.total_eids
             /\ worker_cnt' = d.worker_cnt
             /\ e_conn' = [host |-> entry_args.host,
                           num_process |-> entry_args.num_process,
                           gids |-> d.gids, eids |-> d.eids, sent |-> TRUE]
    /\ e_pc' = "loop"
    /\ UNCHANGED <<learner_vars, trainer_vars, batcher_vars, selector_vars,
                   compute_vars, s_pc, history_vars>>

EntryServer ==
    \/ EntryLoop
    \/ EntryTimeout
    \/ EntryRegister(MaxWorkers)

\* the registration loop next to the start of Learner.shutdown
NextEntry ==
    \/ EntryServer
    \/ ShutdownLearner

SpecEntry == Init /\ [][NextEntry]_vars

(***************************************************************************)
(* Properties.                                                             *)
(***************************************************************************)
\* the last k episodes submitted, oldest first
LastSubmitted(k) == [i \in 1..k |-> fed - k + i]

\* C1: whenever no episode submission is in progress (feed_episodes has
\* returned), the store holds at most maximum_episodes episodes and they are
\* the most recent min(n, maximum_episodes) of the n non-null episodes
\* submitted, in submission order.
C1_StoreBounded ==
    c_pc # "evict" =>
        /\ Len(episodes) <= maximum_episodes
        /\ episodes = LastSubmitted(Min(fed, maximum_episodes))

\* a submission that made the store evict has been answered
C1_Witness ==
    /\ conn.req = "episode"
    /\ conn.sent
    /\ fed > maximum_episodes
    /\ Len(episodes) = maximum_episodes

\* the responses of the last request, as a list
Responses == Wrap(conn.send_data)
Requested == Wrap(conn.payload)

\* C3: a model-fetch for the current era is answered with the current
\* snapshot, one for another era with that era's persisted snapshot when it
\* loads and with the current snapshot when the load fails.
C3_FetchFallsBackToCurrent ==
    (conn.sent /\ conn.req = "model") =>
        \A k \in 1..Len(Requested) :
            Responses[k] =
                IF Requested[k] = model_era THEN model
                ELSE IF Loads(Requested[k]) THEN Loaded(Requested[k])
                ELSE model

\* C10: the response has the payload's shape -- one response for a single
\* item, a list of n responses for a list of n items -- and the k-th response
\* answers the k-th item: generation configurations carry consecutive episode
\* ids, evaluation configurations alternate the seat, submissions are
\* acknowledged one by one, and a fetch of the current era among the items is
\* answered in its place by the current model.
C10_ShapePreserved ==
    conn.sent =>
        /\ conn.send_data.list = conn.payload.list
        /\ Len(Responses) = Len(Requested)
        /\ \A k \in 1..Len(Responses) :
            CASE conn.req = "gargs" ->
                    Responses[k].episode_id = num_episodes - Len(Responses) + k - 1
              [] conn.req = "eargs" ->
                    Responses[k].player = (num_results - Len(Responses) + k - 1) % 2
              [] conn.req = "model" ->
                    (Requested[k] = model_era) => (Responses[k] = model)
              [] OTHER -> Responses[k] = TRUE

\* a list of one item has been answered with a list of one response
C10_Witness ==
    /\ conn.sent
    /\ conn.payload.list
    /\ Len(conn.payload.val) = 1
    /\ conn.send_data.list
    /\ Len(conn.send_data.val) = 1

\* the step in which Trainer.update returns a model to Learner.update
UpdateReturns == c_pc = "poll_ret" /\ c_pc' = "serve"

\* C4: Trainer.update returns a model only after a report_update that
\* followed the raising of the request flag, the returned (model, steps) is
\* the pair that report_update wrote (a snapshot of the train model after
\* steps gradient steps), and exactly one report_update happened between the
\* raising of the flag and the return.
C4_UpdateAfterTraining ==
    [][UpdateReturns =>
          /\ raised = 1
          /\ model' = updated_model.model
          /\ model'.kind = "net"
          /\ model'.ver = updated_model.steps]_vars

\* C4 as the code has it: at least one report_update follows the raising of
\* the flag before Trainer.update returns, the returned pair is the one the
\* last of them wrote, and there is exactly one unless the Trainer's shutdown
\* flag was set meanwhile (train() also leaves its loop on shutdown and
\* reports again).
C4_UpdateAfterReport ==
    [][UpdateReturns =>
          /\ raised >= 1
          /\ ~t_shutdown_flag => raised = 1
          /\ model' = updated_model.model
          /\ model'.kind = "net"
          /\ model'.ver = updated_model.steps]_vars

C4_Witness ==
    /\ c_pc = "serve"
    /\ ~t_shutdown_flag
    /\ raised = 1
    /\ model.kind = "net"
    /\ model = updated_model.model

\* C2: the model era starts at 0, never decreases, and is strictly larger
\* when a Learner.update call returns than when it was called.
C2_EraStrictlyIncreasing ==
    /\ model_era = 0
    /\ [][/\ model_era' >= model_era
          /\ (c_pc \in {"update", "poll_ret"} /\ c_pc' = "serve")
                => model_era' > model_era
          /\ (c_pc' # "serve" \/ c_pc \notin {"update", "poll_ret"})
                => model_era' = model_era]_vars

C2_Witness == model_era >= 2 /\ c_pc = "serve" /\ model.kind = "net"

\* C5: called with fewer than minimum_episodes stored, Trainer.update
\* returns no model at once and leaves the request flag alone; the Trainer
\* takes no gradient step and no batch is queued while the store is below
\* minimum_episodes; an update that returns a trained model advances the era
\* by exactly one and persists exactly that one snapshot under the new era.
C5_BelowMinimumNoUpdate ==
    /\ [](Len(episodes) < minimum_episodes =>
             /\ steps = 0
             /\ queue = 0
             /\ t_pc \in {"run", "gate", "done"})
    /\ [][/\ (c_pc = "update" /\ c_pc' # "update"
                              /\ Len(episodes) < minimum_episodes)
                => /\ c_pc' = "serve"
                   /\ model' = model
                   /\ UNCHANGED <<update_flag, updated_model, raised>>
          /\ (c_pc = "update" /\ c_pc' = "poll")
                => Len(episodes) >= minimum_episodes
          /\ steps' # steps => Len(episodes) >= minimum_episodes
          /\ UpdateReturns
                => /\ model_era' = model_era + 1
                   /\ files'[model_era'] = StateDict(model')
                   /\ files'[model_era'].kind = "params"
                   /\ \A e \in DOMAIN files :
                         e # model_era' => files'[e] = files[e]]_vars

C5_Witness ==
    /\ model_era = 2
    /\ ~shutdown_flag
    /\ files[1].kind = "empty"
    /\ files[2].kind = "params"
    /\ model.kind = "net"

(***************************************************************************)
(* The three threads without a shutdown, each scheduled fairly: the        *)
(* Coordinator, the Trainer thread and every Batcher worker keep running   *)
(* while they can take a step.                                             *)
(***************************************************************************)
NextRunning ==
    \/ Server
    \/ TrainerThread
    \/ \E w \in Workers : BatcherWorker(w)

SpecRunning ==
    /\ Init
    /\ [][NextRunning]_vars
    /\ WF_vars(Server)
    /\ WF_vars(TrainerThread)
    /\ \A w \in Workers : WF_vars(BatcherWorker(w))

\* C6: with a train model without parameters, train() consumes no batch and
\* a Trainer.update issued with at least minimum_episodes stored eventually
\* returns, so that the Coordinator resumes dispatch.
C6_NonParametricUpdateCompletes ==
    /\ [](~parametric => steps = 0)
    /\ (~parametric /\ c_pc = "poll" /\ model_era < MaxEra) ~> (c_pc = "serve")

\* C7: once shutdown_flag is set, the server leaves its request loop only to
\* terminate: it starts no further Learner.update and the era stays put.
C7_ShutdownTotal ==
    [][(shutdown_flag /\ c_pc = "serve")
          => /\ c_pc' \in {"serve", "done"}
             /\ model_era' = model_era]_vars

\* C8: after Trainer.shutdown has set the Trainer's and the Batcher's flags,
\* the Trainer thread has left its run loop or can still get there: it, or a
\* Batcher worker that feeds it, has a step to take.
C8_TrainerExitsAfterShutdown ==
    (t_shutdown_flag /\ b_shutdown_flag /\ steps < MaxSteps)
        => \/ t_pc = "done"
           \/ ENABLED TrainerThread
           \/ \E w \in Workers : ENABLED BatcherWorker(w)

\* C9: every read and write of update_flag and updated_model, by either
\* thread, is made while the accessing thread holds Trainer.lock.
C9_AccessesUnderLock == \A a \in acc : a.held

\* the step in which feed_episodes extends the store with a submission
Submits == c_pc = "recv" /\ c_pc' = "evict"

\* C11: an episode-submit with null entries is no error: the store grows by
\* exactly the non-null entries, in their order, behind what it held, no
\* null entry enters it, and the response is True for every submitted entry.
C11_NullEpisodesDropped ==
    /\ [](conn.sent /\ conn.req = "episode" =>
             /\ Len(Responses) = Len(Requested)
             /\ \A k \in 1..Len(Responses) : Responses[k] = TRUE)
    /\ [][Submits =>
            LET data == Wrap(conn'.payload)
                kept == {k \in 1..Len(data) : data[k] # None} IN
            /\ Len(episodes') = Len(episodes) + Cardinality(kept)
            /\ SubSeq(episodes', 1, Len(episodes)) = episodes
            /\ \A k \in kept :
                  episodes'[Len(episodes)
                            + Cardinality({j \in kept : j <= k})] = data[k][1]]_vars

C11_Witness ==
    /\ conn.sent
    /\ conn.req = "episode"
    /\ conn.payload.list
    /\ \E j, k \in 1..Len(conn.payload.val) :
          /\ conn.payload.val[j] = None
          /\ conn.payload.val[k] # None
          /\ episodes[Len(episodes)] = conn.payload.val[k][1]
    /\ \A k \in 1..Len(conn.send_data.val) : conn.send_data.val[k] = TRUE

\* the step in which the server leaves its request loop for Learner.update
Triggers == c_pc = "serve" /\ c_pc' = "update"

\* C12: while shutdown_flag is not set, the update that follows era e (the
\* (e+1)-th) is triggered only once num_episodes has reached
\* minimum_episodes + (e+1)*update_episodes, so no era beyond 0 exists before
\* minimum_episodes + update_episodes; and whenever a request is received
\* num_episodes is below minimum_episodes + (model_era+1)*update_episodes.
C12_UpdateEveryUpdateEpisodes ==
    /\ [](c_pc = "recv" =>
             num_episodes < minimum_episodes + (model_era + 1) * update_episodes)
    /\ []((~shutdown_flag /\ model_era >= 1) =>
             num_episodes >= minimum_episodes + model_era * update_episodes)
    /\ [][(Triggers /\ ~shutdown_flag) =>
             num_episodes >= minimum_episodes
                             + (model_era + 1) * update_episodes]_vars

C12_Witness ==
    /\ c_pc = "recv"
    /\ ~shutdown_flag
    /\ model_era = 2
    /\ num_episodes >= minimum_episodes + 2 * update_episodes

\* C13: every era below the current one has a persisted snapshot, later
\* updates neither delete nor overwrite it, and a model-fetch for such an era
\* is answered with that era's snapshot (era 0 is the initial RandomModel; a
\* later era's snapshot is the model whose state_dict was saved under it).
C13_OlderErasFetchable ==
    /\ [](\A e \in 0..(model_era - 1) : files[e] # NoFile)
    /\ [][\A e \in 0..(model_era - 1) : files'[e] = files[e]]_vars
    /\ []((conn.sent /\ conn.req = "model") =>
             \A k \in 1..Len(Requested) :
                Requested[k] < model_era =>
                   IF Requested[k] = 0
                   THEN Responses[k] = RandomModel
                   ELSE /\ Responses[k].kind \in {"net", "random"}
                        /\ StateDict(Responses[k]) = files[Requested[k]])

\* the step in which the server answers a generation-config request
Issues == c_pc = "recv" /\ conn'.sent /\ conn'.req = "gargs"

\* C14: the episode ids issued to generation-config requests are 0, 1, 2, ...
\* in issue order (each request continues at the counter, one id per config),
\* the seat of a config is its id modulo 2, both seats get the era current
\* at issue time, and num_episodes grows by one per issued config and is
\* changed by no other request kind.
C14_EpisodeIdsSequential ==
    /\ num_episodes = 0
    /\ [][/\ Issues =>
               LET args == Wrap(conn'.send_data) IN
               /\ Len(args) = Len(Wrap(conn'.payload))
               /\ num_episodes' = num_episodes + Len(args)
               /\ \A k \in 1..Len(args) :
                     /\ args[k].episode_id = num_episodes + k - 1
                     /\ args[k].player = args[k].episode_id % 2
                     /\ \A p \in 0..1 : args[k].model_id[p] = <<model_era>>
          /\ ~Issues => num_episodes' = num_episodes]_vars

C14_Witness ==
    /\ conn.sent
    /\ conn.req = "gargs"
    /\ conn.payload.list
    /\ Len(Responses) = 2
    /\ model_era >= 1
    /\ Responses[1].episode_id = num_episodes - 2
    /\ Responses[2].episode_id = num_episodes - 1
    /\ Responses[2].model_id[0] = <<model_era>>

\* the histogram count of an (era, outcome) pair
Count(res, e, r) ==
    IF e \in DOMAIN res /\ r \in DOMAIN res[e] THEN res[e][r] ELSE 0

\* the step in which the server answers a result-submit request
Records == c_pc = "recv" /\ conn'.sent /\ conn'.req = "result"

\* C15: the histogram starts empty; a result-submit raises the count of
\* every (era, outcome) by the number of submitted pairs with that era and
\* that non-null outcome, pairs with a null outcome change nothing, and no
\* other step changes the histogram: so every count is the number of
\* submitted pairs with its era and outcome. (An era that is neither in the
\* histogram nor in the request has count 0 before and after.)
C15_HistogramCounts ==
    /\ results = <<>>
    /\ [][/\ Records =>
               LET data == Wrap(conn'.payload)
                   eras == DOMAIN results \cup DOMAIN results'
                           \cup {data[k][1] : k \in 1..Len(data)}
               IN
               /\ \A e \in eras, r \in {-1, 0, 1} :
                     Count(results', e, r) =
                        Count(results, e, r)
                        + Cardinality({k \in 1..Len(data) :
                                          data[k] = <<e, Some(r)>>})
               /\ (\A k \in 1..Len(data) : data[k][2] = None)
                     => results' = results
          /\ ~Records => results' = results]_vars

C15_Witness ==
    /\ conn.sent
    /\ conn.req = "result"
    /\ conn.payload.list
    /\ \E j, k \in 1..Len(conn.payload.val) :
          /\ conn.payload.val[j][2] = None
          /\ conn.payload.val[k][2] = Some(1)
          /\ Count(results, conn.payload.val[k][1], 1) = 2

\* the step in which Learner.update starts (and prints the win rate)
Starts == c_pc = "update" /\ c_pc' # "update"

\* C16: the win rate Learner.update reports is taken over the histogram of
\* the era current when the update starts, before the era advances, and is
\* sum(count * (outcome + 1) / 2) / sum(count), here as the pair of sum(count)
\* and sum(count * (outcome + 1)); for {+1: 3, -1: 1} it is 6 / (2 * 4) =
\* 0.75.  No other step reports a win rate.
C16_WinRateOfCurrentEra ==
    /\ WinRate(0 :> ((1 :> 3) @@ (-1 :> 1)), 0) = [n |-> 4, win2 |-> 6]
    /\ [][/\ Starts =>
               /\ win_rate'.n = Count(results, model_era, -1)
                                + Count(results, model_era, 0)
                                + Count(results, model_era, 1)
               /\ win_rate'.win2 = Count(results, model_era, 0)
                                   + 2 * Count(results, model_era, 1)
          /\ ~Starts => win_rate' = win_rate]_vars

C16_Witness ==
    /\ c_pc = "serve"
    /\ model_era = 1
    /\ win_rate = [n |-> 1, win2 |-> 2]
    /\ Count(results, 0, 1) = 1
    /\ Count(results, 1, -1) = 1

\* the steps of select_episode: the draw of an index, and the test of it
Draws == sel_pc = "draw" /\ sel_pc' = "rate"
Tests == sel_pc = "rate" /\ sel_pc' # "rate"

C18_WindowAndPadding ==
    f_pc \in {"forward", "vtrace", "done"} =>
        LET L == Len(ep.turn)
            S == forward_steps
            covered == Min(S, L) IN
        /\ batch.st \in 0..(IF L > S THEN L - S ELSE 0)
        /\ batch.ed - batch.st = covered
        /\ batch.ed <= L
        /\ \A a \in {"observation", "pmask", "action", "policy"} :
              /\ Len(batch[a]) = S
              /\ \A t \in 1..S :
                    batch[a][t] = IF t <= covered THEN batch.st + t ELSE 0
        /\ \A a \in {"tmask", "vmask", "value", "progress"} :
              DOMAIN batch[a] = 1..S
        /\ \A t \in 1..covered :
              /\ batch.tmask[t] = OneHot(ep.turn[batch.st + t])
              /\ batch.vmask[t] = IF observation THEN Ones ELSE batch.tmask[t]
        /\ \A t \in (covered + 1)..S :
              batch.tmask[t] = Zeros /\ batch.vmask[t] = Zeros

C18_Witness ==
    /\ f_pc = "done"
    /\ Len(ep.turn) = forward_steps - 1
    /\ batch.st = 0
    /\ batch.ed = forward_steps - 1
    /\ batch.tmask[forward_steps] = Zeros
    /\ batch.vmask[forward_steps] = Zeros
    /\ batch.tmask[1] # Zeros

\* vtrace has run with the TDLAMBDA estimator
LambdaDone == f_pc = "done" /\ return_mode = "TDLAMBDA"

\* C19: with TDLAMBDA, target[T-1] is the final return, target[t] =
\* (1 - lmb) * value[t] + lmb * target[t+1] for the earlier steps, and the
\* advantage is clipped_rho[t] * (target[t] - value[t]).
C19_LambdaReturnsSameStep ==
    LambdaDone =>
        \A p \in Players :
           /\ loss.value_targets[forward_steps][p] = batch.return[p] * Scale
           /\ \A t \in 1..(forward_steps - 1) :
                 10 * loss.value_targets[t][p] =
                    (10 - lmb10) * pred.values_nograd[t][p] * Scale
                    + lmb10 * loss.value_targets[t + 1][p]
           /\ \A t \in T :
                 loss.advantages[t][p] =
                    pred.clipped_rhos[t]
                    * (loss.value_targets[t][p]
                       - pred.values_nograd[t][p] * Scale)

\* C19 as the code has it: target[t] blends the value of the NEXT step,
\* target[t] = (1 - lmb) * value[t+1] + lmb * target[t+1]; the last target
\* and the advantage are as claimed.
C19_LambdaReturnsNextStep ==
    LambdaDone =>
        \A p \in Players :
           /\ loss.value_targets[forward_steps][p] = batch.return[p] * Scale
           /\ \A t \in 1..(forward_steps - 1) :
                 10 * loss.value_targets[t][p] =
                    (10 - lmb10) * pred.values_nograd[t + 1][p] * Scale
                    + lmb10 * loss.value_targets[t + 1][p]
           /\ \A t \in T :
                 loss.advantages[t][p] =
                    pred.clipped_rhos[t]
                    * (loss.value_targets[t][p]
                       - pred.values_nograd[t][p] * Scale)

C19_Witness ==
    /\ LambdaDone
    /\ Len(ep.turn) >= forward_steps
    /\ pred.values_nograd[1][0] # pred.values_nograd[2][0]
    /\ pred.values_nograd[2][0] # pred.values_nograd[3][0]
    /\ pred.clipped_rhos[1] = 1
    /\ loss.advantages[1][0] # 0

\* vtrace has run with the TD0 estimator and every importance weight is 1
OnPolicyTD0 ==
    /\ f_pc = "done"
    /\ return_mode = "TD0"
    /\ \A t \in T : pred.clipped_rhos[t] = 1 /\ pred.cs[t] = 1

\* C20: with TD0 and rho[t] = c[t] = 1 at every step, the value target of
\* every step is the final return, whatever the predicted values are.
C20_TD0ReducesToReturn ==
    OnPolicyTD0 =>
        \A t \in T : \A p \in Players :
            loss.value_targets[t][p] = batch.return[p] * Scale

C20_Witness ==
    /\ OnPolicyTD0
    /\ Len(ep.turn) >= forward_steps
    /\ \A t \in T : pred.values_nograd[t][0] # batch.return[0]
    /\ pred.values_nograd[1][0] # pred.values_nograd[2][0]
    /\ loss.value_targets[1][0] = batch.return[0] * Scale

\* the step in which the entry service answers a registration
Registers == e_pc = "accept" /\ e_conn'.sent

\* the members of a list of ids
Ids(seq) == {seq[i] : i \in 1..Len(seq)}

\* the generators and evaluators assigned before worker id w is, in the step
GeneratorsBefore(w) ==
    Len(total_gids) + Cardinality({i \in Ids(e_conn'.gids) : i < w})

EvaluatorsBefore(w) ==
    Len(total_eids) + Cardinality({i \in Ids(e_conn'.eids) : i < w})

\* C21: a slot gets the generator role if the evaluators assigned so far
\* exceed eworker_rate times the generators assigned so far, and the
\* evaluator role otherwise.
C21_GeneratorIfRatioExceeds ==
    [][Registers =>
          \A w \in worker_cnt..(worker_cnt' - 1) :
             (w \in Ids(e_conn'.gids)) <=>
                (10 * EvaluatorsBefore(w) > eworker_rate10 * GeneratorsBefore(w))]_vars

\* C21 as the code has it: a slot gets the generator role if the evaluators
\* assigned so far, less one, exceed eworker_rate times the generators
\* assigned so far, and the evaluator role otherwise.
C21_GeneratorIfRatioExceedsByOne ==
    [][Registers =>
          \A w \in worker_cnt..(worker_cnt' - 1) :
             /\ w \in Ids(e_conn'.gids) \cup Ids(e_conn'.eids)
             /\ (w \in Ids(e_conn'.gids)) <=>
                   (10 * (EvaluatorsBefore(w) - 1)
                       > eworker_rate10 * GeneratorsBefore(w))]_vars

C21_Witness ==
    /\ e_conn.sent
    /\ e_conn.num_process = 3
    /\ Len(e_conn.gids) = 2
    /\ Len(e_conn.eids) = 1
    /\ Len(total_gids) >= 3

\* seq continues old
Extends(seq, old) ==
    /\ Len(seq) >= Len(old)
    /\ \A i \in 1..Len(old) : seq[i] = old[i]

\* C22: worker ids are issued consecutively from 0 and never again; every
\* issued id is in exactly one of the generator and evaluator sets and stays
\* there; a registration's response lists exactly num_process new ids, split
\* between its generator and evaluator lists.
C22_RegistrationAdditive ==
    /\ worker_cnt = 0
    /\ [](/\ Ids(total_gids) \cup Ids(total_eids) = 0..(worker_cnt - 1)
          /\ Ids(total_gids) \cap Ids(total_eids) = {}
          /\ Len(total_gids) + Len(total_eids) = worker_cnt)
    /\ [][/\ Extends(total_gids', total_gids)
          /\ Extends(total_eids', total_eids)
          /\ Registers =>
                /\ worker_cnt' = worker_cnt + e_conn'.num_process
                /\ Len(e_conn'.gids) + Len(e_conn'.eids) = e_conn'.num_process
                /\ Ids(e_conn'.gids) \cup Ids(e_conn'.eids)
                      = worker_cnt..(worker_cnt' - 1)
                /\ Ids(e_conn'.gids) \subseteq Ids(total_gids')
                /\ Ids(e_conn'.eids) \subseteq Ids(total_eids')
          /\ ~Registers => worker_cnt' = worker_cnt]_vars

C22_Witness ==
    /\ e_conn.sent
    /\ e_conn.gids # <<>>
    /\ e_conn.eids # <<>>
    /\ worker_cnt > e_conn.num_process
    /\ Len(total_gids) > Len(e_conn.gids)

\* a worker pushes its batch
Pushes == \E w \in Workers : w_pc[w] = "send" /\ w_pc'[w] = "loop"

Publishes == model_era' # model_era

\* C24: a published snapshot never changes: the model Trainer.train returns
\* is a copy holding the parameters of the moment of the copy, a gradient
\* step changes no copy handed out and no published model or file, the
\* current model changes only when an update publishes, and the file of an
\* era is written when the era is published and never again.
C24_SnapshotsImmutable ==
    /\ [](t_model.kind = "net" => t_model.ver = steps)
    /\ [][/\ steps' # steps =>
                /\ model' = model
                /\ files' = files
                /\ updated_model' = updated_model
                /\ t_model' = t_model
          /\ ~Publishes => (model' = model /\ files' = files)
          /\ Publishes =>
                /\ files'[model_era'] = StateDict(model')
                /\ \A e \in Eras \ {model_era'} : files'[e] = files[e]
                /\ files[model_era'] = NoFile
          /\ \A e \in Eras : files[e] # NoFile => files'[e] = files[e]]_vars

C24_Witness ==
    /\ model_era >= 1
    /\ model.kind = "net"
    /\ steps > model.ver
    /\ files[model_era] = StateDict(model)
    /\ t_model.kind = "net"
    /\ t_model # model

\* Learner.update returns: at once when Trainer.update had no model, or
\* after the poll that found one
UpdateDone == c_pc \in {"update", "poll_ret"} /\ c_pc' = "serve"

\* C25: every Learner.update that returns has raised model_era by exactly 1
\* and written exactly one file, the one of the new era, holding the model
\* that is current afterwards; when Trainer.update returned no model (store
\* below minimum_episodes) that model is the one that was current before.
\* Nothing else changes the era or a file.
C25_UpdatePublishesOneEra ==
    [][/\ UpdateDone =>
             /\ model_era' = model_era + 1
             /\ files[model_era'] = NoFile
             /\ files'[model_era'] = StateDict(model')
             /\ \A e \in Eras \ {model_era'} : files'[e] = files[e]
             /\ c_pc = "update" =>
                   (Len(episodes) < minimum_episodes /\ model' = model)
       /\ ~UpdateDone =>
             (model_era' = model_era /\ files' = files /\ model' = model)]_vars

C25_Witness ==
    /\ c_pc = "serve"
    /\ model_era = 2
    /\ Len(episodes) < minimum_episodes
    /\ model = RandomModel
    /\ files[1] = StateDict(RandomModel)
    /\ files[2] = StateDict(RandomModel)
    /\ files[3] = NoFile

\* the steps of select_episode that read the store
Samples == sel_pc' # sel_pc

\* C26: the Batcher is started only with minimum_episodes or more in the
\* store; the store holds min(submitted, maximum_episodes) episodes between
\* submissions and never fewer, and the number submitted only grows, so the
\* size between submissions never decreases; hence every step of
\* select_episode reads a store of at least min(minimum_episodes,
\* maximum_episodes) episodes, never an empty one.
C26_SamplingAboveThreshold ==
    /\ [](Len(episodes) >= Min(fed, maximum_episodes))
    /\ [](c_pc # "evict" => Len(episodes) = Min(fed, maximum_episodes))
    /\ [][/\ fed' >= fed
          /\ b_runs' > b_runs => Len(episodes) >= minimum_episodes
          /\ Samples =>
                /\ b_runs > 0
                /\ Len(episodes) >= Min(minimum_episodes, maximum_episodes)
                /\ Len(episodes) > 0]_vars

C26_Witness ==
    /\ sel_pc = "draw"
    /\ sel_ep > 0
    /\ b_runs = 1
    /\ Len(episodes) = maximum_episodes
    /\ fed > maximum_episodes
    /\ c_pc = "recv"

\* the read of the store at the drawn index
Takes == sel_pc = "take" /\ sel_pc' # "take"

\* the store length select_episode read when it computed the rate
LengthAtRate == maximum_episodes - sel_rate + sel_idx + 1

\* C27: whatever feed_episodes does in between, the index select_episode
\* reads the store at is within the store at the moment of the read: the
\* read never raises.
C27_IndexWithinBounds ==
    /\ [](sel_pc # "IndexError")
    /\ [][Takes => (/\ sel_idx >= 0
                    /\ sel_idx < Len(episodes)
                    /\ sel_ep' = episodes[sel_idx + 1])]_vars

C27_Witness ==
    /\ sel_pc = "take"
    /\ Len(episodes) < LengthAtRate
    /\ sel_idx = Len(episodes) - 1
    /\ sel_ep > 0

\* Trainer.train returns a snapshot
TrainReturns == t_pc = "loop" /\ t_pc' = "report"

\* C28: with a parametric model, train() returns a snapshot only after a
\* gradient step of that call on a batch with data (also when a flag was set
\* from the start), the snapshot holds the parameters after all steps so far,
\* the steps reported with successive snapshots grow strictly, and the
\* Batcher is started once: with the first train() and never again.
C28_SnapshotFollowsStep ==
    /\ [](parametric => b_runs <= 1)
    /\ []((parametric /\ steps > 0) => b_runs = 1)
    /\ [][parametric =>
            /\ TrainReturns =>
                  /\ data_cnt > 0
                  /\ steps > updated_model.steps
                  /\ t_model' = Snapshot(steps)
            /\ (t_pc = "gate" /\ t_pc' = "loop") => data_cnt' = 0
            /\ data_cnt' > data_cnt => steps' = steps + 1
            /\ updated_model' # updated_model =>
                  /\ updated_model'.model = Snapshot(updated_model'.steps)
                  /\ updated_model'.steps > updated_model.steps]_vars

C28_Witness ==
    /\ parametric
    /\ b_runs = 1
    /\ steps = 2
    /\ model = Snapshot(1)
    /\ updated_model = [model |-> Snapshot(2), steps |-> 2]
    /\ t_pc = "run"

\* C29: the win rate is never a division by zero: every era key of the
\* histogram has an outcome, and every outcome a count of at least 1; an
\* update for an era with a key divides by a positive number of results, and
\* an update for an era without a key reports 'NaN' (no rate) and does not
\* divide.
C29_NoDivisionByZero ==
    /\ [](\A e \in DOMAIN results :
             /\ DOMAIN results[e] # {}
             /\ \A r \in DOMAIN results[e] : results[e][r] >= 1)
    /\ [][Starts =>
            IF model_era \in DOMAIN results
            THEN win_rate'.n >= 1
            ELSE win_rate' = NoRate]_vars

C29_Witness ==
    /\ c_pc = "serve"
    /\ model_era = 2
    /\ 0 \in DOMAIN results
    /\ 1 \notin DOMAIN results
    /\ win_rate = NoRate
    /\ num_results > Count(results, 0, -1) + Count(results, 0, 1)

\* the real steps of the batch, and a batch that was padded
RealSteps == batch.ed - batch.st
Padded == f_pc \in {"vtrace", "done"} /\ RealSteps < forward_steps

\* TD0 on a window of n steps, with no padding: the recursion of vtrace with
\* time_length = n
RECURSIVE UnpaddedVsMinusV(_, _, _, _, _, _)
UnpaddedVsMinusV(v, ret, rho, c, t, n) ==
    LET delta == rho[t] * ((IF t = n THEN ret ELSE v[t + 1]) - v[t])
    IN IF t = n THEN delta
       ELSE delta + c[t] * UnpaddedVsMinusV(v, ret, rho, c, t + 1, n)

\* TDLAMBDA on a window of n steps, with no padding, in 1 / Scale
RECURSIVE UnpaddedLambdaReturns(_, _, _, _)
UnpaddedLambdaReturns(v, ret, t, n) ==
    IF t = n THEN ret * Scale
    ELSE ((10 - lmb10) * v[t + 1] * Scale
          + lmb10 * UnpaddedLambdaReturns(v, ret, t + 1, n)) \div 10

\* the value target and the advantage of step t and player p on the window
\* of the real steps alone, in 1 / Scale
UnpaddedTarget(mode, t, p) ==
    LET v == [k \in T |-> pred.values_nograd[k][p]]
        ret == batch.return[p]
    IN IF mode = "TD0"
       THEN (UnpaddedVsMinusV(v, ret, pred.clipped_rhos, pred.cs, t,
                              RealSteps) + v[t]) * Scale
       ELSE UnpaddedLambdaReturns(v, ret, t, RealSteps)

UnpaddedAdvantage(mode, t, p) ==
    LET v == [k \in T |-> pred.values_nograd[k][p]]
        ret == batch.return[p]
        rho == pred.clipped_rhos
    IN IF mode = "TD0"
       THEN rho[t] * ((IF t = RealSteps THEN ret * Scale
                       ELSE UnpaddedTarget(mode, t + 1, p)) - v[t] * Scale)
       ELSE rho[t] * (UnpaddedTarget(mode, t, p) - v[t] * Scale)

\* C30: padding is neutral. In a window of fewer real steps than
\* forward_steps, every padded step has the final return as its value and
\* rho = c = 1; under TD0 and under TDLAMBDA the value targets and advantages
\* of the real steps are those of the same estimator on the real steps alone;
\* and a padded step adds zero to the policy, value and entropy terms of the
\* loss, and nothing to the data count.
C30_PaddingNeutral ==
    Padded =>
       /\ \A t \in T : t > RealSteps =>
             /\ pred.values_nograd[t] = batch.return
             /\ pred.clipped_rhos[t] = 1
             /\ pred.cs[t] = 1
       /\ f_pc = "done" =>
             /\ return_mode \in {"TD0", "TDLAMBDA"} =>
                   \A t \in 1..RealSteps, p \in Players :
                      /\ loss.value_targets[t][p]
                            = UnpaddedTarget(return_mode, t, p)
                      /\ loss.advantages[t][p]
                            = UnpaddedAdvantage(return_mode, t, p)
             /\ \A t \in T : t > RealSteps =>
                   /\ loss.terms.p[t] = 0
                   /\ loss.terms.v[t] = 0
                   /\ loss.terms.ent[t] = 0
             /\ loss.dcnt = RealSteps

C30_Witness ==
    /\ f_pc = "done"
    /\ return_mode = "TD0"
    /\ RealSteps = 2
    /\ pred.clipped_rhos = <<1, 0, 1>>
    /\ loss.value_targets[1][0] # batch.return[0] * Scale
    /\ loss.terms.p[1] # 0
    /\ loss.terms.v[1] # 0
    /\ loss.terms.ent[1] # 0

====
